---- MODULE Spec2Model ----
(***************************************************************************)
(* A model of examples/mnist_rnn_gan.py: the command line driver that      *)
(* validates its arguments, loads and normalises MNIST, builds the         *)
(* generator and discriminator for the chosen attention modes, trains the  *)
(* adversarial model, optionally samples and plots, and saves.             *)
(*                                                                         *)
(* Python strings whose letter case matters (the mode and latent-type      *)
(* arguments) are tuples of one-character strings, so that str.lower() is  *)
(* a real conversion.  Arrays are records of a shape, a dtype and, for     *)
(* images, one representative element (every operation of the script on    *)
(* an array is element-wise).  Pixel values after normalisation are exact  *)
(* rationals num/den.                                                      *)
(*                                                                         *)
(* Spec is a run of the script from the parsed command line; every call    *)
(* into an external library (dataset, framework, plotting) may raise, and  *)
(* nothing in the script catches.  SpecData calls get_mnist_data on its    *)
(* own for every pair of pixel values; SpecBuild calls the two builders    *)
(* on their own with arbitrary mode strings.                               *)
(***************************************************************************)
EXTENDS Integers, Sequences, FiniteSets, TLC

\* ------------------------------------------------------------------ bounds

\* --plot ranges over -1 .. MaxPlot
MaxPlot == 1
\* --nb_latent ranges over 1 .. MaxLatent
MaxLatent == 2
\* number of images in the training split returned by mnist.load_data()
NTrain == 2
\* number of images in the test split returned by mnist.load_data()
NTest == 1

\* ------------------------------------------------------- program constants

\* rows and columns of an MNIST image, and the generator's sequence length
ImageSize == 28
\* np.where(X >= 10, 1, -1)
BinarizeThreshold == 10
\* (X - 127.5) / 127.5, both numbers doubled to stay in the integers
TwiceOffset == 255
TwiceScale == 255

\* the values of a uint8 pixel
Pixels == 0 .. 255

\* ----------------------------------------------------------------- strings

UpperLetters ==
  <<"A","B","C","D","E","F","G","H","I","J","K","L","M",
    "N","O","P","Q","R","S","T","U","V","W","X","Y","Z">>

LowerLetters ==
  <<"a","b","c","d","e","f","g","h","i","j","k","l","m",
    "n","o","p","q","r","s","t","u","v","w","x","y","z">>

LowerChar(c) ==
  IF \E i \in DOMAIN UpperLetters : UpperLetters[i] = c
    THEN LowerLetters[CHOOSE i \in DOMAIN UpperLetters : UpperLetters[i] = c]
    ELSE c

\* str.lower()
Lower(s) == [i \in DOMAIN s |-> LowerChar(s[i])]

s_none == <<"n","o","n","e">>
s_1d == <<"1","d">>
s_2d == <<"2","d">>
s_normal == <<"n","o","r","m","a","l">>
s_uniform == <<"u","n","i","f","o","r","m">>

\* the literal lists of lines 213, 218 and 223
ValidModes == {s_none, s_1d, s_2d}
ValidLatentTypes == {s_normal, s_uniform}

\* values of --gen_mode and --dis_mode tried on the command line
ModeArgs ==
  { s_none, <<"N","o","n","e">>, s_1d, <<"1","D">>, s_2d, <<"2","D">>,
    <<"3","d">> }

\* values of --latent_type tried on the command line
LatentArgs ==
  { s_normal, <<"N","O","R","M","A","L">>, s_uniform,
    <<"U","n","i","f","o","r","m">>, <<"o","r","m","a","l">>,
    <<"O","r","m","a","l">> }

\* the remaining options: the argparse defaults and one other setting
OtherArgs ==
  { [nb_epoch |-> 10, nb_batch |-> 32, lr |-> "0.001", beta |-> "0.5",
     save_path |-> "/tmp/mnist_rnn_gan.keras_model"],
    [nb_epoch |-> 1, nb_batch |-> 64, lr |-> "0.01", beta |-> "0.9",
     save_path |-> "out.keras_model"] }

\* ------------------------------------------------------------------ values

None == [none |-> TRUE]

NoError == [type |-> "none", param |-> "", value |-> <<>>]

Error(t, p, v) == [type |-> t, param |-> p, value |-> v]

\* a failure raised inside an external library call, not caught by the script
ExternalError(call) == Error("ExternalError", call, <<>>)

Rat(n, d) == [num |-> n, den |-> d]

RatLess(a, b) == a.num * b.den < b.num * a.den

RatLeq(a, b) == a.num * b.den <= b.num * a.den

Range(f) == {f[i] : i \in DOMAIN f}

Count(seq, x) == Cardinality({i \in DOMAIN seq : seq[i] = x})

\* ------------------------------------------------------------- get_mnist_data

\* what mnist.load_data() returns: uint8 images of rank 3 and uint8 labels of
\* rank 1; ptrain and ptest are the representative pixels of the two splits
RawMnist(ptrain, ptest) ==
  [X_train |-> [shape |-> <<NTrain, ImageSize, ImageSize>>, dtype |-> "uint8",
                px |-> Rat(ptrain, 1)],
   y_train |-> [shape |-> <<NTrain>>, dtype |-> "uint8"],
   X_test  |-> [shape |-> <<NTest, ImageSize, ImageSize>>, dtype |-> "uint8",
                px |-> Rat(ptest, 1)],
   y_test  |-> [shape |-> <<NTest>>, dtype |-> "uint8"]]

\* np.where(X >= 10, 1, -1) on one element
Binarized(p) == IF p >= BinarizeThreshold THEN Rat(1, 1) ELSE Rat(-1, 1)

\* (X.astype(np.float32) - 127.5) / 127.5 on one element
Scaled_by255(p) == Rat(2 * p - TwiceOffset, 2 * TwiceScale)

Scaled(p) == Rat(2 * p - TwiceOffset, TwiceScale)

\* the if/else of lines 117-122 on one image array
NormalizeImages(X, binarize) ==
  IF binarize
    THEN [X EXCEPT !.px = Binarized(X.px.num), !.dtype = "int64"]
    ELSE [X EXCEPT !.px = Scaled(X.px.num), !.dtype = "float32"]

\* np.expand_dims(a, axis=-1)
ExpandDims(a) == [a EXCEPT !.shape = Append(a.shape, 1)]

get_mnist_data(raw, binarize) ==
  [X_train |-> ExpandDims(NormalizeImages(raw.X_train, binarize)),
   y_train |-> ExpandDims(raw.y_train),
   X_test  |-> ExpandDims(NormalizeImages(raw.X_test, binarize)),
   y_test  |-> ExpandDims(raw.y_test)]

\* ------------------------------------------------------------------ builders

\* keras.layers.Input(shape, dtype=..., name=...)
Input(shape, dtype, name) == [name |-> name, shape |-> shape, dtype |-> dtype]

\* keras.models.Model(input=inputs, output=...)
Network(inputs, attention, output) ==
  [inputs |-> inputs, attention |-> attention, output |-> output]

build_generator_strict(latent_size, mode) ==
  LET latent == Input(<<latent_size>>, "float32", "latent")
      gen_image == [name |-> "gen_image",
                    shape |-> <<ImageSize, ImageSize, 1>>]
  IN  IF mode = s_1d
        THEN Network(<<latent, Input(<<1>>, "int32", "image_class_gen")>>,
                     "RecurrentAttention1D", gen_image)
      ELSE IF mode = s_2d
        THEN Network(<<latent, Input(<<ImageSize, ImageSize, 1>>, "float32",
                                     "ref_image_gen")>>,
                     "RecurrentAttention2D", gen_image)
      ELSE IF mode = s_none
        THEN Network(<<latent>>, "none", gen_image)
      ELSE None

build_generator_swapped(latent_size, mode) ==
  LET latent == Input(<<latent_size>>, "float32", "latent")
      gen_image == [name |-> "gen_image",
                    shape |-> <<ImageSize, ImageSize, 1>>]
  IN  IF mode = s_2d
        THEN Network(<<latent, Input(<<1>>, "int32", "image_class_gen")>>,
                     "RecurrentAttention1D", gen_image)
      ELSE IF mode = s_1d
        THEN Network(<<latent, Input(<<ImageSize, ImageSize, 1>>, "float32",
                                     "ref_image_gen")>>,
                     "RecurrentAttention2D", gen_image)
      ELSE Network(<<latent>>, "none", gen_image)

build_generator(latent_size, mode) ==
  LET latent == Input(<<latent_size>>, "float32", "latent")
      gen_image == [name |-> "gen_image",
                    shape |-> <<ImageSize, ImageSize, 1>>]
  IN  IF mode = s_1d
        THEN Network(<<latent, Input(<<1>>, "int32", "image_class_gen")>>,
                     "RecurrentAttention1D", gen_image)
      ELSE IF mode = s_2d
        THEN Network(<<latent, Input(<<ImageSize, ImageSize, 1>>, "float32",
                                     "ref_image_gen")>>,
                     "RecurrentAttention2D", gen_image)
      ELSE Network(<<latent>>, "none", gen_image)

build_discriminator(mode) ==
  LET image == Input(<<ImageSize, ImageSize, 1>>, "float32", "real_data")
      pred_fake == [name |-> "pred_fake", shape |-> <<1>>]
  IN  IF mode = s_1d
        THEN Network(<<image, Input(<<1>>, "int32", "image_class_dis")>>,
                     "RecurrentAttention1D", pred_fake)
      ELSE IF mode = s_2d
        THEN Network(<<image, Input(<<ImageSize, ImageSize, 1>>, "float32",
                                    "ref_image_dis")>>,
                     "RecurrentAttention2D", pred_fake)
      ELSE Network(<<image>>, "none", pred_fake)

\* the names a network declares as inputs
InputNames(net) == {net.inputs[i].name : i \in DOMAIN net.inputs}

\* ---------------------------------------------------------------- train_model

\* a latent sampling strategy named by a string
Tag(s) == [tag |-> s]

\* d[key] = value on a dict
Put(d, key, value) ==
  [k \in DOMAIN d \cup {key} |-> IF k = key THEN value ELSE d[k]]

\* lines 146-158: the input dictionary handed to fit
TrainInputs_always_gen(latent_type, gen_mode, dis_mode, X, y) ==
  LET base == Put(Put(<<>>, "latent", Tag(Lower(latent_type))), "real_data", X)
      g == IF gen_mode = s_2d THEN Put(base, "ref_image_gen", X)
           ELSE Put(base, "image_class_gen", y)
  IN  IF dis_mode = s_1d THEN Put(g, "image_class_dis", y)
      ELSE IF dis_mode = s_2d THEN Put(g, "ref_image_dis", X)
      ELSE g

TrainInputs(latent_type, gen_mode, dis_mode, X, y) ==
  LET base == Put(Put(<<>>, "latent", Tag(Lower(latent_type))), "real_data", X)
      g == IF gen_mode = s_1d THEN Put(base, "image_class_gen", y)
           ELSE IF gen_mode = s_2d THEN Put(base, "ref_image_gen", X)
           ELSE base
  IN  IF dis_mode = s_1d THEN Put(g, "image_class_dis", y)
      ELSE IF dis_mode = s_2d THEN Put(g, "ref_image_dis", X)
      ELSE g

\* line 161
TrainOutputs == [gen_real |-> "1", fake |-> "0"]

\* y_train[:k] on the first axis of an array of n rows
SliceRows(a, k) ==
  LET n == a.shape[1]
      m == IF k >= 0 THEN (IF k < n THEN k ELSE n)
           ELSE (IF n + k > 0 THEN n + k ELSE 0)
  IN  [a EXCEPT !.shape = [a.shape EXCEPT ![1] = m]]

\* lines 242-251: the arguments of model.sample
SampleArgs(a, gen_mode, y) ==
  IF gen_mode = s_none
    THEN [inputs |-> <<Tag(a.latent_type)>>, num_samples |-> a.plot]
    ELSE [inputs |-> <<Tag(a.latent_type), SliceRows(y, a.plot)>>,
          num_samples |-> None]

\* ---------------------------------------------------------------------- state

VARIABLES
  args,           \* the parsed command line (argparse Namespace)
  mpl_available,  \* whether matplotlib can be imported in this environment
  mnist,          \* what mnist.load_data() returns
  pc,             \* the statement the script is at
  err,            \* the exception that ended the run, or NoError
  plt,            \* TRUE once matplotlib.pyplot is imported
  X_train, y_train, X_test, y_test,  \* results of get_mnist_data
  gen_mode, dis_mode,                \* train_model's lowercased modes
  generator, discriminator,          \* the networks built
  model,          \* the gandlf.Model: None, "compiled" or "trained"
  fit_call,       \* the arguments of model.fit, or None
  sample_call,    \* the arguments of model.sample, or None
  save_call,      \* the arguments of model.save, or None
  calls           \* the external calls made so far, in order

vars ==
  <<args, mpl_available, mnist, pc, err, plt, X_train, y_train, X_test, y_test,
    gen_mode, dis_mode, generator, discriminator, model, fit_call, sample_call,
    save_call, calls>>

env == <<args, mpl_available, mnist>>

data == <<X_train, y_train, X_test, y_test>>

nets == <<gen_mode, dis_mode, generator, discriminator>>

\* the state of the program before its first statement
Fresh ==
  /\ err = NoError
  /\ plt = FALSE
  /\ X_train = None /\ y_train = None /\ X_test = None /\ y_test = None
  /\ gen_mode = None /\ dis_mode = None
  /\ generator = None /\ discriminator = None
  /\ model = None
  /\ fit_call = None /\ sample_call = None /\ save_call = None
  /\ calls = <<>>

\* the Namespace argparse returns
Namespace(g, d, l, p, b, n, o) ==
  [gen_mode |-> g, dis_mode |-> d, latent_type |-> l, plot |-> p,
   binarize |-> b, nb_latent |-> n, nb_epoch |-> o.nb_epoch,
   nb_batch |-> o.nb_batch, lr |-> o.lr, beta |-> o.beta,
   save_path |-> o.save_path]

\* parser.parse_args(): every option value of the right type
ParsedArgs ==
  { Namespace(g, d, l, p, b, n, o) :
      g \in ModeArgs, d \in ModeArgs, l \in LatentArgs, p \in -1 .. MaxPlot,
      b \in BOOLEAN, n \in 1 .. MaxLatent, o \in OtherArgs }

\* pixels the run of the whole script is tried on
RunPixels == {BinarizeThreshold - 1, BinarizeThreshold}

Init ==
  /\ args \in ParsedArgs
  /\ mpl_available \in BOOLEAN
  /\ \E p \in RunPixels : mnist = RawMnist(p, p)
  /\ pc = "check_gen_mode"
  /\ Fresh

\* raise: the exception propagates to the top level and the process exits
Raise(e) ==
  /\ pc' = "error"
  /\ err' = e

\* ----------------------------------------------------------------- __main__

CheckGenMode_nolower ==
  /\ pc = "check_gen_mode"
  /\ IF args.gen_mode \notin ValidModes
       THEN Raise(Error("ValueError", "gen_mode", args.gen_mode))
       ELSE pc' = "check_dis_mode" /\ UNCHANGED err
  /\ UNCHANGED <<env, plt, data, nets, model, fit_call, sample_call,
                 save_call, calls>>

\* lines 213-216
CheckGenMode ==
  /\ pc = "check_gen_mode"
  /\ IF Lower(args.gen_mode) \notin ValidModes
       THEN Raise(Error("ValueError", "gen_mode", args.gen_mode))
       ELSE pc' = "check_dis_mode" /\ UNCHANGED err
  /\ UNCHANGED <<env, plt, data, nets, model, fit_call, sample_call,
                 save_call, calls>>

\* lines 218-221
CheckDisMode ==
  /\ pc = "check_dis_mode"
  /\ IF Lower(args.dis_mode) \notin ValidModes
       THEN Raise(Error("ValueError", "dis_mode", args.dis_mode))
       ELSE pc' = "check_latent_type" /\ UNCHANGED err
  /\ UNCHANGED <<env, plt, data, nets, model, fit_call, sample_call,
                 save_call, calls>>

CheckLatentType_skipped ==
  /\ pc = "check_latent_type"
  /\ pc' = "import_plt"
  /\ UNCHANGED <<env, err, plt, data, nets, model, fit_call, sample_call,
                 save_call, calls>>

\* lines 223-225
CheckLatentType ==
  /\ pc = "check_latent_type"
  /\ IF Lower(args.latent_type) \notin ValidLatentTypes
       THEN Raise(Error("ValueError", "latent_type", Lower(args.latent_type)))
       ELSE pc' = "import_plt" /\ UNCHANGED err
  /\ UNCHANGED <<env, plt, data, nets, model, fit_call, sample_call,
                 save_call, calls>>

ImportPlt_lazy ==
  /\ pc = "import_plt"
  /\ plt' = (args.plot # 0 /\ mpl_available)
  /\ pc' = "load"
  /\ UNCHANGED <<env, err, data, nets, model, fit_call, sample_call,
                 save_call, calls>>

\* lines 227-232
ImportPlt ==
  /\ pc = "import_plt"
  /\ IF args.plot # 0
       THEN IF mpl_available
              THEN plt' = TRUE /\ pc' = "load" /\ UNCHANGED err
              ELSE Raise(Error("ImportError", "matplotlib", <<>>))
                   /\ UNCHANGED plt
       ELSE pc' = "load" /\ UNCHANGED <<plt, err>>
  /\ UNCHANGED <<env, data, nets, model, fit_call, sample_call, save_call,
                 calls>>

\* line 235: get_mnist_data(binarize=args.binarize), the test split dropped
LoadData ==
  /\ pc = "load"
  /\ calls' = Append(calls, "load_data")
  /\ \/ LET d == get_mnist_data(mnist, args.binarize)
        IN  /\ X_train' = d.X_train
            /\ y_train' = d.y_train
            /\ pc' = "train_model"
            /\ UNCHANGED err
     \/ Raise(ExternalError("load_data")) /\ UNCHANGED <<X_train, y_train>>
  /\ UNCHANGED <<env, plt, X_test, y_test, nets, model, fit_call,
                 sample_call, save_call>>

\* ---------------------------------------------------------------- train_model

\* lines 135-138: the optimizer, the lowercased modes, the generator
BuildGenerator ==
  /\ pc = "train_model"
  /\ gen_mode' = Lower(args.gen_mode)
  /\ dis_mode' = Lower(args.dis_mode)
  /\ generator' = build_generator(args.nb_latent, gen_mode')
  /\ calls' = Append(calls, "build_generator")
  /\ pc' = "build_discriminator"
  /\ UNCHANGED <<env, err, plt, data, discriminator, model, fit_call,
                 sample_call, save_call>>

\* line 139
BuildDiscriminator ==
  /\ pc = "build_discriminator"
  /\ discriminator' = build_discriminator(dis_mode)
  /\ calls' = Append(calls, "build_discriminator")
  /\ pc' = "compile"
  /\ UNCHANGED <<env, err, plt, data, gen_mode, dis_mode, generator, model,
                 fit_call, sample_call, save_call>>

\* lines 142-143: gandlf.Model(generator, discriminator) and model.compile
Compile ==
  /\ pc = "compile"
  /\ calls' = Append(calls, "compile")
  /\ \/ /\ model' = [state |-> "compiled",
                      optimizer |-> [name |-> "Adam", lr |-> args.lr,
                                     beta_1 |-> args.beta],
                      loss |-> "binary_crossentropy"]
        /\ pc' = "fit"
        /\ UNCHANGED err
     \/ Raise(ExternalError("compile")) /\ UNCHANGED model
  /\ UNCHANGED <<env, plt, data, nets, fit_call, sample_call, save_call>>

Fit_swallow ==
  /\ pc = "fit"
  /\ calls' = Append(calls, "fit")
  /\ fit_call' = [inputs |-> TrainInputs(args.latent_type, gen_mode, dis_mode,
                                         X_train, y_train),
                  outputs |-> TrainOutputs,
                  nb_epoch |-> args.nb_epoch,
                  batch_size |-> args.nb_batch]
  /\ \/ model' = [model EXCEPT !.state = "trained"]
     \/ UNCHANGED model
  /\ pc' = IF args.plot # 0 THEN "sample" ELSE "save"
  /\ UNCHANGED <<env, err, plt, data, nets, sample_call, save_call>>

\* lines 146-165: the dictionaries, model.fit, return to line 239
Fit ==
  /\ pc = "fit"
  /\ calls' = Append(calls, "fit")
  /\ fit_call' = [inputs |-> TrainInputs(args.latent_type, gen_mode, dis_mode,
                                         X_train, y_train),
                  outputs |-> TrainOutputs,
                  nb_epoch |-> args.nb_epoch,
                  batch_size |-> args.nb_batch]
  /\ \/ /\ model' = [model EXCEPT !.state = "trained"]
        /\ pc' = IF args.plot # 0 THEN "sample" ELSE "save"
        /\ UNCHANGED err
     \/ Raise(ExternalError("fit")) /\ UNCHANGED model
  /\ UNCHANGED <<env, plt, data, nets, sample_call, save_call>>

\* ------------------------------------------------------- __main__, continued

\* lines 240-251: model.sample for the generator's mode
Sample ==
  /\ pc = "sample"
  /\ calls' = Append(calls, "sample")
  /\ sample_call' = SampleArgs(args, Lower(args.gen_mode), y_train)
  /\ \/ pc' = "plot" /\ UNCHANGED err
     \/ Raise(ExternalError("sample"))
  /\ UNCHANGED <<env, plt, data, nets, model, fit_call, save_call>>

\* lines 244-257: one figure per sample, then plt.show()
Plot ==
  /\ pc = "plot"
  /\ calls' = Append(calls, "show")
  /\ \/ pc' = "save" /\ UNCHANGED err
     \/ Raise(ExternalError("show"))
  /\ UNCHANGED <<env, plt, data, nets, model, fit_call, sample_call,
                 save_call>>

\* lines 259-260
Save ==
  /\ pc = "save"
  /\ calls' = Append(calls, "save")
  /\ save_call' = [path |-> args.save_path]
  /\ \/ pc' = "done" /\ UNCHANGED err
     \/ Raise(ExternalError("save"))
  /\ UNCHANGED <<env, plt, data, nets, model, fit_call, sample_call>>

Next ==
  \/ CheckGenMode
  \/ CheckDisMode
  \/ CheckLatentType
  \/ ImportPlt
  \/ LoadData
  \/ BuildGenerator
  \/ BuildDiscriminator
  \/ Compile
  \/ Fit
  \/ Sample
  \/ Plot
  \/ Save

\* a run of the script from the parsed command line
Spec == Init /\ [][Next]_vars

\* the run has ended, normally or with an exception
Ended == pc \in {"done", "error"}

\* ------------------------------------------- get_mnist_data called on its own

DefaultOther == CHOOSE o \in OtherArgs : o.nb_epoch = 10

InitData ==
  /\ \E b \in BOOLEAN :
       args = Namespace(s_none, s_none, s_uniform, 0, b, 1, DefaultOther)
  /\ mpl_available = FALSE
  /\ \E p \in Pixels, q \in Pixels : mnist = RawMnist(p, q)
  /\ pc = "call_get_mnist_data"
  /\ Fresh

\* lines 112-130, all four arrays kept
CallGetMnistData ==
  /\ pc = "call_get_mnist_data"
  /\ calls' = Append(calls, "load_data")
  /\ LET d == get_mnist_data(mnist, args.binarize)
     IN  /\ X_train' = d.X_train
         /\ y_train' = d.y_train
         /\ X_test' = d.X_test
         /\ y_test' = d.y_test
  /\ pc' = "returned"
  /\ UNCHANGED <<env, err, plt, nets, model, fit_call, sample_call,
                 save_call>>

NextData == CallGetMnistData

SpecData == InitData /\ [][NextData]_vars

\* ---------------------------------------------- the builders called directly

\* modes a caller of the builders may pass: no validation comes before
BuilderModes == ModeArgs \cup {<<>>, <<"a","t","t","n">>}

InitBuild ==
  /\ \E g \in BuilderModes, d \in BuilderModes, n \in 1 .. MaxLatent :
       args = Namespace(g, d, s_uniform, 0, FALSE, n, DefaultOther)
  /\ mpl_available = FALSE
  /\ mnist = RawMnist(0, 0)
  /\ pc = "call_builders"
  /\ Fresh

\* build_generator(latent_size, mode) with the caller's mode as it is
CallBuildGenerator ==
  /\ pc = "call_builders"
  /\ "build_generator" \notin Range(calls)
  /\ gen_mode' = args.gen_mode
  /\ generator' = build_generator(args.nb_latent, args.gen_mode)
  /\ calls' = Append(calls, "build_generator")
  /\ UNCHANGED <<env, pc, err, plt, data, dis_mode, discriminator, model,
                 fit_call, sample_call, save_call>>

\* build_discriminator(mode) with the caller's mode as it is
CallBuildDiscriminator ==
  /\ pc = "call_builders"
  /\ "build_discriminator" \notin Range(calls)
  /\ dis_mode' = args.dis_mode
  /\ discriminator' = build_discriminator(args.dis_mode)
  /\ calls' = Append(calls, "build_discriminator")
  /\ UNCHANGED <<env, pc, err, plt, data, gen_mode, generator, model,
                 fit_call, sample_call, save_call>>

NextBuild ==
  \/ CallBuildGenerator
  \/ CallBuildDiscriminator

SpecBuild == InitBuild /\ [][NextBuild]_vars

\* ===================================================================== claims

\* the modes and latent types the specification names
ClaimModes == {s_none, s_1d, s_2d}
ClaimLatentTypes == {s_normal, s_uniform}

GenModeInvalid == Lower(args.gen_mode) \notin ClaimModes
DisModeInvalid == Lower(args.dis_mode) \notin ClaimModes
LatentTypeInvalid == Lower(args.latent_type) \notin ClaimLatentTypes

\* the statements of argument validation, before anything else has run
Validating ==
  /\ pc \in {"check_gen_mode", "check_dis_mode", "check_latent_type", "error"}
  /\ calls = <<>>
  /\ X_train = None /\ y_train = None
  /\ generator = None /\ discriminator = None
  /\ model = None /\ fit_call = None

\* ------------------------------------------------------------------------ C1

ExpectedFitKeys(g, d) ==
  {"latent", "real_data"}
    \cup (IF g = s_1d THEN {"image_class_gen"} ELSE {})
    \cup (IF g = s_2d THEN {"ref_image_gen"} ELSE {})
    \cup (IF d = s_1d THEN {"image_class_dis"} ELSE {})
    \cup (IF d = s_2d THEN {"ref_image_dis"} ELSE {})

\* C1: whenever fit has been called, the keys of its input dictionary are
\* latent and real_data plus image_class_gen iff gen_mode is 1d, ref_image_gen
\* iff gen_mode is 2d, image_class_dis iff dis_mode is 1d, ref_image_dis iff
\* dis_mode is 2d, and nothing else, whatever the other options are; for gen
\* 1d and dis 2d they are latent, real_data, image_class_gen, ref_image_dis.
C1_FitInputKeys ==
  fit_call # None =>
    /\ DOMAIN fit_call.inputs
         = ExpectedFitKeys(Lower(args.gen_mode), Lower(args.dis_mode))
    /\ (Lower(args.gen_mode) = s_1d /\ Lower(args.dis_mode) = s_2d) =>
         DOMAIN fit_call.inputs
           = {"latent", "real_data", "image_class_gen", "ref_image_dis"}

C1_Witness ==
  /\ fit_call # None
  /\ args.gen_mode = <<"1","D">>
  /\ args.dis_mode = s_2d
  /\ args.binarize
  /\ args.nb_latent = MaxLatent
  /\ DOMAIN fit_call.inputs
       = {"latent", "real_data", "image_class_gen", "ref_image_dis"}

\* ------------------------------------------------------------------------ C2

ExpectedGenInputs(m) ==
  IF m = s_1d THEN {"latent", "image_class_gen"}
  ELSE IF m = s_2d THEN {"latent", "ref_image_gen"}
  ELSE {"latent"}

ExpectedDisInputs(m) ==
  IF m = s_1d THEN {"real_data", "image_class_dis"}
  ELSE IF m = s_2d THEN {"real_data", "ref_image_dis"}
  ELSE {"real_data"}

GenOnlyNames == {"latent", "image_class_gen", "ref_image_gen"}
DisOnlyNames == {"real_data", "image_class_dis", "ref_image_dis"}

\* C2: a generator built for none, 1d, 2d declares exactly {latent},
\* {latent, image_class_gen}, {latent, ref_image_gen}; a discriminator built
\* for none, 1d, 2d declares exactly {real_data}, {real_data, image_class_dis},
\* {real_data, ref_image_dis}; neither declares an input of the other.
C2_DeclaredInputs ==
  /\ (generator # None /\ gen_mode \in ClaimModes) =>
       /\ InputNames(generator) = ExpectedGenInputs(gen_mode)
       /\ Len(generator.inputs) = Cardinality(InputNames(generator))
       /\ InputNames(generator) \cap DisOnlyNames = {}
  /\ (discriminator # None /\ dis_mode \in ClaimModes) =>
       /\ InputNames(discriminator) = ExpectedDisInputs(dis_mode)
       /\ Len(discriminator.inputs) = Cardinality(InputNames(discriminator))
       /\ InputNames(discriminator) \cap GenOnlyNames = {}

C2_Witness ==
  /\ generator # None /\ gen_mode = s_1d
  /\ InputNames(generator) = {"latent", "image_class_gen"}
  /\ discriminator # None /\ dis_mode = s_2d
  /\ InputNames(discriminator) = {"real_data", "ref_image_dis"}

\* ------------------------------------------------------------------------ C3

\* C3: while --gen_mode or --dis_mode is outside none, 1d, 2d after
\* lowercasing, the run never leaves argument validation (no dataset loaded,
\* no builder called) and, once failed, has failed with a ValueError naming
\* the offending value as given; a mode that is valid after lowercasing is
\* never the cause of an error.
C3_InvalidModeFailsEarly ==
  /\ (GenModeInvalid \/ DisModeInvalid) =>
       /\ Validating
       /\ pc # "check_latent_type"
       /\ pc = "error" =>
            /\ err.type = "ValueError"
            /\ \/ GenModeInvalid /\ err.param = "gen_mode"
                    /\ err.value = args.gen_mode
               \/ ~GenModeInvalid /\ DisModeInvalid /\ err.param = "dis_mode"
                    /\ err.value = args.dis_mode
  /\ ~GenModeInvalid => err.param # "gen_mode"
  /\ ~DisModeInvalid => err.param # "dis_mode"

C3_Witness ==
  /\ pc = "error"
  /\ args.gen_mode = <<"N","o","n","e">>
  /\ args.dis_mode = <<"3","d">>
  /\ err = Error("ValueError", "dis_mode", <<"3","d">>)
  /\ calls = <<>>

\* ------------------------------------------------------------------------ C4

\* C4 as stated: a builder called with a mode outside none, 1d, 2d returns no
\* network and fails.
C4_BuilderRejectsUnknownMode ==
  /\ ("build_generator" \in Range(calls) /\ gen_mode \notin ClaimModes) =>
       generator = None /\ err # NoError
  /\ ("build_discriminator" \in Range(calls) /\ dis_mode \notin ClaimModes) =>
       discriminator = None /\ err # NoError

\* C4 amended: a builder called with any mode other than 1d and 2d, valid or
\* not, returns the network without attention, declaring only latent
\* (generator) or only real_data (discriminator), and raises nothing.
C4_UnknownModeBuildsNoAttention ==
  /\ ("build_generator" \in Range(calls) /\ gen_mode \notin {s_1d, s_2d}) =>
       /\ err = NoError
       /\ generator # None
       /\ generator = build_generator(args.nb_latent, s_none)
       /\ InputNames(generator) = {"latent"}
       /\ generator.attention = "none"
  /\ ("build_discriminator" \in Range(calls) /\ dis_mode \notin {s_1d, s_2d}) =>
       /\ err = NoError
       /\ discriminator # None
       /\ InputNames(discriminator) = {"real_data"}
       /\ discriminator.attention = "none"

C4_Witness ==
  /\ "build_generator" \in Range(calls)
  /\ gen_mode = <<"3","d">>
  /\ InputNames(generator) = {"latent"}
  /\ "build_discriminator" \in Range(calls)
  /\ dis_mode = <<"1","D">>
  /\ InputNames(discriminator) = {"real_data"}

\* ------------------------------------------------------------------------ C5

\* what C5 says of the run apart from the text of the error
C5_FailsInValidation ==
  /\ Validating
  /\ pc = "error" => err.type = "ValueError" /\ err.param = "latent_type"

\* C5 as stated: with valid modes and a --latent_type outside normal, uniform
\* after lowercasing, the run never leaves argument validation and the error
\* carries the offending value.
C5_LatentErrorCarriesValue ==
  (~GenModeInvalid /\ ~DisModeInvalid /\ LatentTypeInvalid) =>
    /\ C5_FailsInValidation
    /\ pc = "error" => err.value = args.latent_type

\* C5 amended: the same, the error carrying the lowercased form of the
\* offending value.
C5_LatentErrorCarriesLowered ==
  (~GenModeInvalid /\ ~DisModeInvalid /\ LatentTypeInvalid) =>
    /\ C5_FailsInValidation
    /\ pc = "error" => err.value = Lower(args.latent_type)

C5_Witness ==
  /\ pc = "error"
  /\ args.latent_type = <<"O","r","m","a","l">>
  /\ args.gen_mode = <<"2","D">>
  /\ args.plot # 0
  /\ err = Error("ValueError", "latent_type", <<"o","r","m","a","l">>)
  /\ calls = <<>>

\* ------------------------------------------------------------------------ C6

\* what C6 says apart from which error ends the run
C6_NeverLoadsNorFits ==
  /\ (args.plot # 0 /\ ~mpl_available) =>
       /\ pc \in {"check_gen_mode", "check_dis_mode", "check_latent_type",
                  "import_plt", "error"}
       /\ calls = <<>>
       /\ X_train = None
       /\ fit_call = None
  /\ args.plot = 0 => plt = FALSE /\ err.type # "ImportError"

\* C6 as stated: a run with --plot non-zero and no matplotlib fails with the
\* missing-dependency error before the dataset is loaded, and never calls
\* fit; with --plot 0 matplotlib is never imported.
C6_FailsWithImportError ==
  /\ C6_NeverLoadsNorFits
  /\ (args.plot # 0 /\ ~mpl_available /\ pc = "error") =>
       err.type = "ImportError"

\* C6 amended: the same, the error being the missing-dependency error when
\* the modes and the latent type are valid (an invalid one fails first, with
\* its ValueError).
C6_FailsWithImportErrorIfArgsValid ==
  /\ C6_NeverLoadsNorFits
  /\ (args.plot # 0 /\ ~mpl_available /\ pc = "error") =>
       IF GenModeInvalid \/ DisModeInvalid \/ LatentTypeInvalid
         THEN err.type = "ValueError"
         ELSE err.type = "ImportError"

C6_Witness ==
  /\ pc = "error"
  /\ args.plot = -1
  /\ ~mpl_available
  /\ err.type = "ImportError"
  /\ calls = <<>>

\* ------------------------------------------------------------------------ C7

\* the pixel a split was loaded with
RawPixel(X) == X.px.num

\* r is the rational (p - 127.5) / 127.5
IsScaledPixel(r, p) == r.den > 0 /\ r.num * 255 = (2 * p - 255) * r.den

\* r is the integer v
IsInteger(r, v) == r.den > 0 /\ r.num = v * r.den

\* C7 for one split
C7_Split(X, raw) ==
  LET p == RawPixel(raw)
  IN  IF args.binarize
        THEN /\ IsInteger(X.px, 1) \/ IsInteger(X.px, -1)
             /\ IsInteger(X.px, 1) <=> p >= 10
        ELSE /\ IsScaledPixel(X.px, p)
             /\ RatLeq(Rat(-1, 1), X.px) /\ RatLeq(X.px, Rat(1, 1))
             /\ p = 0 => IsInteger(X.px, -1)
             /\ p = 255 => IsInteger(X.px, 1)

\* C7: get_mnist_data maps a pixel p of 0..255 to 1 if p >= 10 and to -1
\* otherwise when binarize is set, and to (p - 127.5) / 127.5 when it is not:
\* a value of [-1, 1], -1 for 0 and 1 for 255, strictly increasing in p; the
\* train and the test split are mapped alike.
C7_PixelMapping ==
  pc = "returned" =>
    /\ C7_Split(X_train, mnist.X_train)
    /\ C7_Split(X_test, mnist.X_test)
    /\ (~args.binarize /\ RawPixel(mnist.X_train) < RawPixel(mnist.X_test)) =>
         RatLess(X_train.px, X_test.px)
    /\ RawPixel(mnist.X_train) = RawPixel(mnist.X_test) =>
         X_train.px = X_test.px

C7_Witness ==
  /\ pc = "returned"
  /\ ~args.binarize
  /\ RawPixel(mnist.X_train) = 0
  /\ RawPixel(mnist.X_test) = 255
  /\ IsInteger(X_train.px, -1)
  /\ IsInteger(X_test.px, 1)

\* ------------------------------------------------------------------------ C8

\* the external calls of a run in the order the specification gives
PhaseOrder ==
  <<"load_data", "build_generator", "build_discriminator", "compile", "fit",
    "sample", "show", "save">>

PhaseIndex(c) == CHOOSE i \in DOMAIN PhaseOrder : PhaseOrder[i] = c

\* every call made is a phase, made once, after the phases before it
InPhaseOrder ==
  /\ \A i \in DOMAIN calls : calls[i] \in Range(PhaseOrder)
  /\ \A i, j \in DOMAIN calls :
       i < j => PhaseIndex(calls[i]) < PhaseIndex(calls[j])
  /\ calls # <<>> =>
       ~GenModeInvalid /\ ~DisModeInvalid /\ ~LatentTypeInvalid

FitSucceeded == model # None /\ model.state = "trained"

SavedOnce ==
  /\ Count(calls, "save") = 1
  /\ save_call = [path |-> args.save_path]

\* what C8 says of every run apart from save after a successful fit
C8_OrderAndFailure ==
  /\ InPhaseOrder
  /\ "fit" \in Range(calls) => "compile" \in Range(calls)
  /\ "compile" \in Range(calls) =>
       /\ "load_data" \in Range(calls)
       /\ "build_generator" \in Range(calls)
       /\ "build_discriminator" \in Range(calls)
  /\ "sample" \in Range(calls) => args.plot # 0 /\ FitSucceeded
  /\ "save" \in Range(calls) => FitSucceeded
  /\ (pc = "error" /\ err.param \in {"load_data", "compile", "fit"}) =>
       /\ calls[Len(calls)] = err.param
       /\ "sample" \notin Range(calls)
       /\ "save" \notin Range(calls)
       /\ save_call = None
  /\ pc = "done" => SavedOnce

\* C8 as stated: the phases run in order, each at most once; a failure of fit
\* or of an earlier call ends the run without sample or save; and a run whose
\* fit succeeded calls save exactly once, with the configured path.
C8_SaveAfterEverySuccessfulFit ==
  /\ C8_OrderAndFailure
  /\ (Ended /\ FitSucceeded) => SavedOnce

\* C8 amended: the same, save being called exactly once in a run whose fit
\* succeeded and whose sampling and plotting, if requested, did not fail.
C8_SaveAfterFitUnlessSamplingFails ==
  /\ C8_OrderAndFailure
  /\ (Ended /\ FitSucceeded) =>
       IF pc = "error" /\ err.param \in {"sample", "show"}
         THEN "save" \notin Range(calls) /\ save_call = None
         ELSE SavedOnce

C8_Witness ==
  /\ pc = "done"
  /\ args.plot # 0
  /\ calls = PhaseOrder
  /\ save_call = [path |-> args.save_path]

\* ------------------------------------------------------------------------ C9

\* what a declared input takes: class labels, images, or a latent vector
DeclKind(d) ==
  IF d.dtype = "int32" /\ d.shape = <<1>> THEN "labels"
  ELSE IF d.shape = <<28, 28, 1>> THEN "images"
  ELSE "latent"

\* what a value passed for an input is: a latent source named by a tag, or an
\* array of labels or of images
ValueKind(v) ==
  IF "tag" \in DOMAIN v THEN "latent"
  ELSE IF Tail(v.shape) = <<1>> THEN "labels"
  ELSE IF Tail(v.shape) = <<28, 28, 1>> THEN "images"
  ELSE "other"

\* C9: the inputs passed to sample are as many as the generator declares and
\* of the kind each declares: the latent source alone for none, with class
\* labels for 1d, with reference images (as bound to ref_image_gen in
\* training) for 2d.
C9_SampleInputsMatchGenerator ==
  sample_call # None =>
    /\ Len(sample_call.inputs) = Len(generator.inputs)
    /\ \A i \in DOMAIN sample_call.inputs :
         i \in DOMAIN generator.inputs =>
           ValueKind(sample_call.inputs[i]) = DeclKind(generator.inputs[i])
    /\ gen_mode = s_2d =>
         ValueKind(sample_call.inputs[2])
           = ValueKind(fit_call.inputs["ref_image_gen"])

\* ----------------------------------------------------------------------- C10

\* C10: the latent tag passed to sample is the string passed to fit under
\* 'latent', the lowercased --latent_type.
C10_SameLatentTag ==
  sample_call # None =>
    /\ sample_call.inputs[1] = fit_call.inputs["latent"]
    /\ sample_call.inputs[1].tag = Lower(args.latent_type)

====
